---- MODULE Spec2Model ----
(***************************************************************************)
(* BLAKE2s hash, keyed hash and HMAC (src/crypto/zinc/blake2s/blake2s.c).  *)
(*                                                                         *)
(* A u8 is an integer in 0..255.  A u32 is kept at its width as the pair   *)
(* <<lo, hi>> of its 16-bit halves (value = lo + 65536 * hi), so every     *)
(* addition wraps modulo 2^32 exactly as the C arithmetic does.            *)
(***************************************************************************)
EXTENDS Integers, Sequences, FiniteSets

(***************************************************************************)
(* Constants of zinc/blake2s.h                                             *)
(***************************************************************************)
BLAKE2S_BLOCKBYTES == 64
BLAKE2S_OUTBYTES == 32
BLAKE2S_KEYBYTES == 32

(***************************************************************************)
(* u32 arithmetic                                                          *)
(***************************************************************************)
RECURSIVE XorBits(_, _, _)
\* a ^ b on n-bit operands, bit by bit
XorBits(a, b, n) ==
  IF n = 0 THEN 0
  ELSE ((a + b) % 2) + 2 * XorBits(a \div 2, b \div 2, n - 1)

\* the table of a ^ b for u8 operands: XorTable[a + 1][b + 1]
XorTable ==
  SubSeq([a \in 1..256 |->
            SubSeq([b \in 1..256 |-> XorBits(a - 1, b - 1, 8)], 1, 256)],
         1, 256)

\* a ^ b on 16-bit halves, a byte at a time
Xor16(a, b) ==
  XorTable[(a % 256) + 1][(b % 256) + 1]
    + 256 * XorTable[(a \div 256) + 1][(b \div 256) + 1]

\* a ^ b on u8
Xor8(a, b) == XorTable[a + 1][b + 1]

\* a ^ b on u32
Xor32(x, y) == <<Xor16(x[1], y[1]), Xor16(x[2], y[2])>>

\* a + b on u32 (wraps modulo 2^32)
Add32(x, y) ==
  <<(x[1] + y[1]) % 65536,
    (x[2] + y[2] + ((x[1] + y[1]) \div 65536)) % 65536>>

\* ror32(x, n) for the rotation amounts of G
Ror32(x, n) ==
  CASE n = 16 -> <<x[2], x[1]>>
    [] n = 12 -> <<(x[1] \div 4096) + (x[2] % 4096) * 16,
                   (x[2] \div 4096) + (x[1] % 4096) * 16>>
    [] n = 8  -> <<(x[1] \div 256) + (x[2] % 256) * 256,
                   (x[2] \div 256) + (x[1] % 256) * 256>>
    [] n = 7  -> <<(x[1] \div 128) + (x[2] % 128) * 512,
                   (x[2] \div 128) + (x[1] % 128) * 512>>

\* a u32 from a small non-negative integer (size_t value below 2^31)
U32(n) == <<n % 65536, (n \div 65536) % 65536>>

\* x < y on u32
Lt32(x, y) == x[2] < y[2] \/ (x[2] = y[2] /\ x[1] < y[1])

\* the u32 with high half hi and low half lo: 0xHHHHLLLL
Word(hi, lo) == <<lo, hi>>

ZeroWord == <<0, 0>>
\* (u32)-1
AllOnes == <<65535, 65535>>

\* get_unaligned_le32: four bytes, least significant first
Le32(b0, b1, b2, b3) == <<b0 + 256 * b1, b2 + 256 * b3>>

\* cpu_to_le32 followed by a byte copy: the four bytes of a word in memory
WordBytes(w) == <<w[1] % 256, w[1] \div 256, w[2] % 256, w[2] \div 256>>

\* n zero bytes
Zeros(n) == [i \in 1..n |-> 0]

(***************************************************************************)
(* Tables                                                                  *)
(***************************************************************************)
blake2s_iv ==
  << Word(\H6A09, \HE667), Word(\HBB67, \HAE85), Word(\H3C6E, \HF372),
     Word(\HA54F, \HF53A), Word(\H510E, \H527F), Word(\H9B05, \H688C),
     Word(\H1F83, \HD9AB), Word(\H5BE0, \HCD19) >>

blake2s_sigma ==
  << << 0, 1, 2, 3, 4, 5, 6, 7, 8, 9, 10, 11, 12, 13, 14, 15 >>,
     << 14, 10, 4, 8, 9, 15, 13, 6, 1, 12, 0, 2, 11, 7, 5, 3 >>,
     << 11, 8, 12, 0, 5, 2, 15, 13, 10, 14, 3, 6, 7, 1, 9, 4 >>,
     << 7, 9, 3, 1, 13, 12, 11, 14, 2, 6, 5, 10, 4, 0, 15, 8 >>,
     << 9, 0, 5, 7, 2, 4, 10, 15, 14, 1, 11, 12, 6, 8, 3, 13 >>,
     << 2, 12, 6, 10, 0, 11, 8, 3, 4, 13, 7, 5, 15, 14, 1, 9 >>,
     << 12, 5, 1, 15, 14, 13, 4, 10, 0, 7, 6, 3, 9, 2, 8, 11 >>,
     << 13, 11, 7, 14, 12, 1, 3, 9, 5, 0, 15, 4, 8, 6, 2, 10 >>,
     << 6, 15, 14, 9, 11, 3, 0, 8, 12, 2, 13, 7, 1, 4, 10, 5 >>,
     << 10, 2, 8, 4, 7, 6, 1, 5, 15, 11, 9, 14, 3, 12, 13, 0 >> >>

(***************************************************************************)
(* struct blake2s_state                                                    *)
(***************************************************************************)
\* memset(state, 0, sizeof(*state))
ZeroState ==
  [h |-> <<ZeroWord, ZeroWord, ZeroWord, ZeroWord,
           ZeroWord, ZeroWord, ZeroWord, ZeroWord>>, t |-> <<ZeroWord, ZeroWord>>,
   f |-> <<ZeroWord, ZeroWord>>, buf |-> Zeros(BLAKE2S_BLOCKBYTES),
   buflen |-> 0, last_node |-> 0]

(***************************************************************************)
(* Each operation below takes and returns a record [state, log]: state is  *)
(* the struct blake2s_state, log lists the compressions performed on it so *)
(* far (block content, counter and flags each one ran with).  The log      *)
(* records what the code did; the code never reads it.                     *)
(***************************************************************************)

\* both flag words set whatever last_node holds
blake2s_set_lastblock_node(state) == [state EXCEPT !.f = <<AllOnes, AllOnes>>]

\* blake2s_set_lastblock
blake2s_set_lastblock(state) ==
  [state EXCEPT !.f = <<AllOnes, IF state.last_node # 0 THEN AllOnes ELSE @[2]>>]

\* the low word advanced and the carry into the high word forgotten
blake2s_increment_counter_low(state, inc) ==
  [state EXCEPT !.t[1] = Add32(@, U32(inc))]

\* blake2s_increment_counter
blake2s_increment_counter(state, inc) ==
  LET t0 == Add32(state.t[1], U32(inc))
      t1 == Add32(state.t[2], IF Lt32(t0, U32(inc)) THEN U32(1) ELSE U32(0))
  IN  [state EXCEPT !.t = <<t0, t1>>]

\* the message words m[0..15] of one block
LoadBlock(block) ==
  SubSeq([i \in 1..16 |-> Le32(block[4 * i - 3], block[4 * i - 2],
                               block[4 * i - 1], block[4 * i])], 1, 16)

\* the working vector v[0..15] before the rounds
InitVector(state) ==
  << state.h[1], state.h[2], state.h[3], state.h[4],
     state.h[5], state.h[6], state.h[7], state.h[8],
     blake2s_iv[1], blake2s_iv[2], blake2s_iv[3], blake2s_iv[4],
     Xor32(blake2s_iv[5], state.t[1]), Xor32(blake2s_iv[6], state.t[2]),
     Xor32(blake2s_iv[7], state.f[1]), Xor32(blake2s_iv[8], state.f[2]) >>

\* the macro G(r, i, a, b, c, d) on v[a], v[b], v[c], v[d]
G(v, m, r, i, a, b, c, d) ==
  LET a1 == Add32(v[a + 1],
                  Add32(v[b + 1], m[blake2s_sigma[r + 1][2 * i + 1] + 1]))
      d1 == Ror32(Xor32(v[d + 1], a1), 16)
      c1 == Add32(v[c + 1], d1)
      b1 == Ror32(Xor32(v[b + 1], c1), 12)
      a2 == Add32(a1, Add32(b1, m[blake2s_sigma[r + 1][2 * i + 2] + 1]))
      d2 == Ror32(Xor32(d1, a2), 8)
      c2 == Add32(c1, d2)
      b2 == Ror32(Xor32(b1, c2), 7)
  IN  [v EXCEPT ![a + 1] = a2, ![b + 1] = b2, ![c + 1] = c2, ![d + 1] = d2]

\* the macro ROUND(r)
ROUND(v, m, r) ==
  G(G(G(G(G(G(G(G(v, m, r, 0, 0, 4, 8, 12),
                m, r, 1, 1, 5, 9, 13),
              m, r, 2, 2, 6, 10, 14),
            m, r, 3, 3, 7, 11, 15),
          m, r, 4, 0, 5, 10, 15),
        m, r, 5, 1, 6, 11, 12),
      m, r, 6, 2, 7, 8, 13),
    m, r, 7, 3, 4, 9, 14)

RECURSIVE Rounds(_, _)
\* ROUND(0); ...; ROUND(9), the loop state l being [v, r]: ROUND(l.r) is next
Rounds(l, m) ==
  IF l.r = 10 THEN l.v
  ELSE Rounds([v |-> ROUND(l.v, m, l.r), r |-> l.r + 1], m)

\* for (i = 0; i < 8; ++i) state->h[i] ^= v[i] ^ v[i + 8];
FoldVector(h, v) ==
  << Xor32(h[1], Xor32(v[1], v[9])), Xor32(h[2], Xor32(v[2], v[10])),
     Xor32(h[3], Xor32(v[3], v[11])), Xor32(h[4], Xor32(v[4], v[12])),
     Xor32(h[5], Xor32(v[5], v[13])), Xor32(h[6], Xor32(v[6], v[14])),
     Xor32(h[7], Xor32(v[7], v[15])), Xor32(h[8], Xor32(v[8], v[16])) >>

\* the body of the while loop after blake2s_increment_counter: state is the
\* struct with the counter already advanced
MixBlock(state, block) ==
  [state EXCEPT !.h =
     FoldVector(@, Rounds([v |-> InitVector(state), r |-> 0],
                          LoadBlock(block)))]

\* the log with one more compression: s is the struct it ran on
Logged(log, s, block) ==
  Append(log, [block |-> block, t |-> s.t, f |-> s.f])

\* one iteration of the while loop of blake2s_compress
CompressBlock(x, block, inc) ==
  [state |-> MixBlock(blake2s_increment_counter(x.state, inc), block),
   log |-> Logged(x.log, blake2s_increment_counter(x.state, inc), block)]

\* a hook that reports the blocks as processed and has processed none
blake2s_arch_idle(state, block, nblocks, inc) == TRUE

\* blake2s_arch of the generic build: declines
blake2s_arch(state, block, nblocks, inc) == FALSE

RECURSIVE CompressLoop(_, _)
\* the while loop of blake2s_compress, the loop state l being
\* [x, block, nblocks]: block is what the block pointer still has ahead
CompressLoop(l, inc) ==
  IF l.nblocks > 0
  THEN CompressLoop(
         [x |-> CompressBlock(l.x, SubSeq(l.block, 1, BLAKE2S_BLOCKBYTES), inc),
          block |-> SubSeq(l.block, BLAKE2S_BLOCKBYTES + 1, Len(l.block)),
          nblocks |-> l.nblocks - 1], inc)
  ELSE l.x

\* blake2s_compress
blake2s_compress(x, block, nblocks, inc) ==
  IF blake2s_arch(x.state, block, nblocks, inc) THEN x
  ELSE CompressLoop([x |-> x, block |-> block, nblocks |-> nblocks], inc)

\* blake2s_arch of the build with CONFIG_ZINC_ARCH_X86_64, whose glue header
\* is not part of the sources: as the specification describes it, the
\* backend declines without side effects when it may not use the vector
\* unit (simd false), and otherwise processes all nblocks blocks as the
\* generic routine would and accepts.  ret is what it returns, x what it
\* leaves.
blake2s_arch_simd(x, block, nblocks, inc, simd) ==
  IF simd
  THEN [ret |-> TRUE,
        x |-> CompressLoop([x |-> x, block |-> block, nblocks |-> nblocks],
                           inc)]
  ELSE [ret |-> FALSE, x |-> x]

\* what blake2s_compress does with the hook answering r
CompressAfterHook(r, block, nblocks, inc) ==
  IF r.ret THEN r.x
  ELSE CompressLoop([x |-> r.x, block |-> block, nblocks |-> nblocks], inc)

\* blake2s_compress of the build with CONFIG_ZINC_ARCH_X86_64
blake2s_compress_simd(x, block, nblocks, inc, simd) ==
  CompressAfterHook(blake2s_arch_simd(x, block, nblocks, inc, simd),
                    block, nblocks, inc)

(***************************************************************************)
(* Parameter block and initialisation                                      *)
(***************************************************************************)
\* a blake2s_param with the designated initialisers of blake2s_init and
\* blake2s_init_key: the other fields are zero; a u8 field keeps 8 bits
Param(outlen, keylen) ==
  [digest_length |-> outlen % 256, key_length |-> keylen % 256,
   fanout |-> 1, depth |-> 1,
   leaf_length |-> ZeroWord, node_offset |-> ZeroWord,
   xof_length |-> 0, node_depth |-> 0, inner_length |-> 0,
   salt |-> Zeros(8), personal |-> Zeros(8)]

\* le32_to_cpu(param->words[i]) for i = 0..7: the packed struct read as
\* eight little-endian words
ParamWords(param) ==
  << Le32(param.digest_length, param.key_length, param.fanout, param.depth),
     param.leaf_length,
     param.node_offset,
     Le32(param.xof_length % 256, param.xof_length \div 256,
          param.node_depth, param.inner_length),
     Le32(param.salt[1], param.salt[2], param.salt[3], param.salt[4]),
     Le32(param.salt[5], param.salt[6], param.salt[7], param.salt[8]),
     Le32(param.personal[1], param.personal[2],
          param.personal[3], param.personal[4]),
     Le32(param.personal[5], param.personal[6],
          param.personal[7], param.personal[8]) >>

\* blake2s_init_param without the memset: only h is written
blake2s_init_param_dirty(state, param) ==
  LET words == ParamWords(param)
  IN  [state |-> [state EXCEPT !.h =
                    << Xor32(blake2s_iv[1], words[1]),
                       Xor32(blake2s_iv[2], words[2]),
                       Xor32(blake2s_iv[3], words[3]),
                       Xor32(blake2s_iv[4], words[4]),
                       Xor32(blake2s_iv[5], words[5]),
                       Xor32(blake2s_iv[6], words[6]),
                       Xor32(blake2s_iv[7], words[7]),
                       Xor32(blake2s_iv[8], words[8]) >>],
       log |-> <<>>]

\* blake2s_init_param: whatever state held before is overwritten
blake2s_init_param(state, param) ==
  LET words == ParamWords(param)
  IN  [state |-> [ZeroState EXCEPT !.h =
                    << Xor32(blake2s_iv[1], words[1]),
                       Xor32(blake2s_iv[2], words[2]),
                       Xor32(blake2s_iv[3], words[3]),
                       Xor32(blake2s_iv[4], words[4]),
                       Xor32(blake2s_iv[5], words[5]),
                       Xor32(blake2s_iv[6], words[6]),
                       Xor32(blake2s_iv[7], words[7]),
                       Xor32(blake2s_iv[8], words[8]) >>],
       log |-> <<>>]

\* blake2s_init
blake2s_init(state, outlen) == blake2s_init_param(state, Param(outlen, 0))

(***************************************************************************)
(* Memory helpers                                                          *)
(***************************************************************************)
\* the extent of an array of len bytes after n bytes were written at off:
\* bytes written past its end are kept, so that an overrun shows
Extent(len, off, n) == IF n > 0 /\ off + n > len THEN off + n ELSE len

\* memcpy(dst + off, src, n) on a byte array dst
memcpy(dst, off, src, n) ==
  [i \in 1..Extent(Len(dst), off, n) |->
     IF off < i /\ i <= off + n THEN src[i - off] ELSE dst[i]]

\* memset(buf + off, 0, n)
memset0(buf, off, n) ==
  [i \in 1..Extent(Len(buf), off, n) |->
     IF off < i /\ i <= off + n THEN 0 ELSE buf[i]]

\* a wipe that was left out
memzero_skipped(buf, n) == buf

\* memzero_explicit(buf, n) on a byte array
memzero_explicit(buf, n) == memset0(buf, 0, n)

\* a wipe of the state that was left out
memzero_state_skipped(state) == state

\* memzero_explicit(state, sizeof(*state))
memzero_state(state) == ZeroState

\* in + n: the bytes of in from offset n on
Advance(in, n) == SubSeq(in, n + 1, Len(in))

(***************************************************************************)
(* blake2s_update                                                          *)
(* The three parts of the body work on l = [x, in]: the state (with its    *)
(* log) and the input still ahead of the pointer in, inlen being Len(l.in).*)
(***************************************************************************)
\* the top-off taken already when the input just fills the buffer
\* (inlen >= fill), so that no full block is held back
UpdateTopOffEager(l) ==
  LET fill == BLAKE2S_BLOCKBYTES - l.x.state.buflen
  IN  IF Len(l.in) >= fill
      THEN LET buf == memcpy(l.x.state.buf, l.x.state.buflen, l.in, fill)
               y == blake2s_compress(
                      [l.x EXCEPT !.state.buf = buf], buf, 1, BLAKE2S_BLOCKBYTES)
           IN  [x |-> [y EXCEPT !.state.buflen = 0], in |-> Advance(l.in, fill)]
      ELSE l

\* the top-off compressing the buffer without the memcpy that fills it
UpdateTopOffStale(l) ==
  LET fill == BLAKE2S_BLOCKBYTES - l.x.state.buflen
  IN  IF Len(l.in) > fill
      THEN LET y == blake2s_compress(l.x, l.x.state.buf, 1, BLAKE2S_BLOCKBYTES)
           IN  [x |-> [y EXCEPT !.state.buflen = 0], in |-> Advance(l.in, fill)]
      ELSE l

\* the top-off left out: the input goes on to the direct pass and the tail
UpdateTopOffNever(l) == l

\* if (inlen > fill) { ... }
UpdateTopOff(l) ==
  LET fill == BLAKE2S_BLOCKBYTES - l.x.state.buflen
  IN  IF Len(l.in) > fill
      THEN LET buf == memcpy(l.x.state.buf, l.x.state.buflen, l.in, fill)
               y == blake2s_compress(
                      [l.x EXCEPT !.state.buf = buf], buf, 1, BLAKE2S_BLOCKBYTES)
           IN  [x |-> [y EXCEPT !.state.buflen = 0], in |-> Advance(l.in, fill)]
      ELSE l

\* the direct pass hashing every full block of the input, none held back
\* (nblocks = inlen / BLAKE2S_BLOCKBYTES, all of them compressed)
UpdateBulkAll(l) ==
  IF Len(l.in) > BLAKE2S_BLOCKBYTES
  THEN LET nblocks == Len(l.in) \div BLAKE2S_BLOCKBYTES
       IN  [x |-> blake2s_compress(l.x, l.in, nblocks, BLAKE2S_BLOCKBYTES),
            in |-> Advance(l.in, BLAKE2S_BLOCKBYTES * nblocks)]
  ELSE l

\* the direct pass leaving the last full block and whatever follows it
\* (nblocks = inlen / BLAKE2S_BLOCKBYTES, nblocks - 1 of them compressed)
UpdateBulkFloor(l) ==
  IF Len(l.in) > BLAKE2S_BLOCKBYTES
  THEN LET nblocks == Len(l.in) \div BLAKE2S_BLOCKBYTES
       IN  [x |-> blake2s_compress(l.x, l.in, nblocks - 1, BLAKE2S_BLOCKBYTES),
            in |-> Advance(l.in, BLAKE2S_BLOCKBYTES * (nblocks - 1))]
  ELSE l

\* if (inlen > BLAKE2S_BLOCKBYTES) { ... }
UpdateBulk(l) ==
  IF Len(l.in) > BLAKE2S_BLOCKBYTES
  THEN LET nblocks ==
             (Len(l.in) + BLAKE2S_BLOCKBYTES - 1) \div BLAKE2S_BLOCKBYTES
       IN  [x |-> blake2s_compress(l.x, l.in, nblocks - 1, BLAKE2S_BLOCKBYTES),
            in |-> Advance(l.in, BLAKE2S_BLOCKBYTES * (nblocks - 1))]
  ELSE l

\* memcpy(state->buf + state->buflen, in, inlen); state->buflen += inlen;
UpdateTail(l) ==
  [l.x EXCEPT !.state.buf = memcpy(@, l.x.state.buflen, l.in, Len(l.in)),
              !.state.buflen = @ + Len(l.in)]

\* state->buflen = inlen; in place of state->buflen += inlen;
UpdateTailAssign(l) ==
  [l.x EXCEPT !.state.buf = memcpy(@, l.x.state.buflen, l.in, Len(l.in)),
              !.state.buflen = Len(l.in)]

\* blake2s_update without the early return and with the tail's buflen
\* assigned instead of added to
blake2s_update_assign(x, in) ==
  UpdateTailAssign(UpdateBulk(UpdateTopOff([x |-> x, in |-> in])))

\* blake2s_update(state, in, inlen), inlen being Len(in)
blake2s_update(x, in) ==
  IF Len(in) = 0 THEN x
  ELSE UpdateTail(UpdateBulk(UpdateTopOff([x |-> x, in |-> in])))

(***************************************************************************)
(* blake2s_init_key, blake2s_final                                         *)
(***************************************************************************)
\* the block filled by repeating the key instead of zero-padding it
KeyBlockRepeated(key, keylen) ==
  [i \in 1..BLAKE2S_BLOCKBYTES |-> key[((i - 1) % keylen) + 1]]

\* u8 block[BLAKE2S_BLOCKBYTES] = { 0 }; memcpy(block, key, keylen);
KeyBlock(key, keylen) == memcpy(Zeros(BLAKE2S_BLOCKBYTES), 0, key, keylen)

\* what blake2s_init_key leaves: x after the update, block after the wipe
InitKeyOut(x, block) == [state |-> x.state, log |-> x.log, block |-> block]

\* blake2s_update(state, block, BLAKE2S_BLOCKBYTES); memzero_explicit(block)
InitKeyBlock(x, block) ==
  InitKeyOut(blake2s_update(x, block),
             memzero_explicit(block, BLAKE2S_BLOCKBYTES))

\* blake2s_init_key: the state, and the local block as it is on return
blake2s_init_key(state, outlen, key, keylen) ==
  InitKeyBlock(blake2s_init_param(state, Param(outlen, keylen)),
               KeyBlock(key, keylen))

\* cpu_to_le32_array(state->h, 8): the chain value as 32 bytes in memory
ChainBytes(h) ==
  WordBytes(h[1]) \o WordBytes(h[2]) \o WordBytes(h[3]) \o WordBytes(h[4]) \o
  WordBytes(h[5]) \o WordBytes(h[6]) \o WordBytes(h[7]) \o WordBytes(h[8])

\* the last outlen bytes of the chain value copied instead of the first
DigestOutTail(h, outlen) ==
  SubSeq(ChainBytes(h), BLAKE2S_OUTBYTES - outlen + 1, BLAKE2S_OUTBYTES)

\* memcpy(out, state->h, outlen): the bytes written to out
DigestOut(h, outlen) == SubSeq(ChainBytes(h), 1, outlen)

\* memset(state->buf + state->buflen, 0, BLAKE2S_BLOCKBYTES - state->buflen)
\* the padding left out: what lies behind buflen stays in the block
FinalPadNone(state) == state

\* memset(state->buf + state->buflen, 0, BLAKE2S_BLOCKBYTES - state->buflen)
FinalPad(state) ==
  [state EXCEPT !.buf = memset0(@, state.buflen,
                                BLAKE2S_BLOCKBYTES - state.buflen)]

\* blake2s_compress(state, state->buf, 1, state->buflen)
FinalCompress(x) == blake2s_compress(x, x.state.buf, 1, x.state.buflen)

\* cpu_to_le32_array; memcpy(out, state->h, outlen); memzero_explicit(state)
FinalOut(y, outlen) ==
  [state |-> memzero_state(y.state), log |-> y.log,
   out |-> DigestOut(y.state.h, outlen)]

\* blake2s_final: the state, and the outlen bytes written to out
blake2s_final(x, outlen) ==
  FinalOut(
    FinalCompress(
      [x EXCEPT !.state = FinalPad(blake2s_set_lastblock(x.state))]),
    outlen)

(***************************************************************************)
(* blake2s_hmac                                                            *)
(* hm holds the arguments (key, in, outlen, keylen = Len(key), inlen =     *)
(* Len(in)), the locals state, x_key and i_hash, the bytes written to out, *)
(* and calls: the blake2s_* calls made so far, in order, each with the     *)
(* length it was given and the bytes it read (update) or wrote (final).    *)
(***************************************************************************)
Call(op, len, data) == [op |-> op, len |-> len, data |-> data]

\* the locals as declared: x_key zeroed, state and i_hash uninitialised
\* (junk_state and junk_hash are what the stack happens to hold)
HmacEnter(key, in, outlen, junk_state, junk_hash) ==
  [key |-> key, in |-> in, outlen |-> outlen, state |-> junk_state,
   x_key |-> Zeros(BLAKE2S_BLOCKBYTES), i_hash |-> junk_hash,
   out |-> <<>>, calls |-> <<>>]

\* the threshold off by one: a key of exactly one block is hashed too
HmacKeyTooLongIncl(keylen) == keylen >= BLAKE2S_BLOCKBYTES

\* keylen > BLAKE2S_BLOCKBYTES
HmacKeyTooLong(keylen) == keylen > BLAKE2S_BLOCKBYTES

\* what the three calls of the keylen > BLAKE2S_BLOCKBYTES branch leave: r is
\* what blake2s_final returned, its out bytes written to x_key
HmacKeyHashed(hm, r) ==
  [hm EXCEPT !.state = r.state,
             !.x_key = memcpy(@, 0, r.out, BLAKE2S_OUTBYTES),
             !.calls = @ \o
               << Call("init", BLAKE2S_OUTBYTES, <<>>),
                  Call("update", Len(hm.key), hm.key),
                  Call("final", BLAKE2S_OUTBYTES, r.out) >>]

\* if (keylen > BLAKE2S_BLOCKBYTES) { init; update; final } else memcpy
HmacKey(hm) ==
  IF HmacKeyTooLong(Len(hm.key))
  THEN HmacKeyHashed(hm,
         blake2s_final(
           blake2s_update(blake2s_init(hm.state, BLAKE2S_OUTBYTES), hm.key),
           BLAKE2S_OUTBYTES))
  ELSE [hm EXCEPT !.x_key = memcpy(@, 0, hm.key, Len(hm.key))]

\* for (i = 0; i < BLAKE2S_BLOCKBYTES; ++i) x_key[i] ^= 0x36;
HmacIpad(hm) ==
  [hm EXCEPT !.x_key = [i \in 1..BLAKE2S_BLOCKBYTES |-> Xor8(@[i], \H36)]]

\* what a pass leaves: it fed x_key and then data, and r is what its
\* blake2s_final returned, its out bytes written to i_hash
HmacPassDone(hm, data, r) ==
  [hm EXCEPT !.state = r.state,
             !.i_hash = memcpy(@, 0, r.out, BLAKE2S_OUTBYTES),
             !.calls = @ \o
               << Call("init", BLAKE2S_OUTBYTES, <<>>),
                  Call("update", BLAKE2S_BLOCKBYTES, hm.x_key),
                  Call("update", Len(data), data),
                  Call("final", BLAKE2S_OUTBYTES, r.out) >>]

\* init; update(x_key); update(in, inlen); final(i_hash)
HmacInner(hm) ==
  HmacPassDone(hm, hm.in,
    blake2s_final(
      blake2s_update(
        blake2s_update(blake2s_init(hm.state, BLAKE2S_OUTBYTES), hm.x_key),
        hm.in),
      BLAKE2S_OUTBYTES))

\* x_key[i] ^= 0x5c; with the inner pad left in place
HmacOpadNoCancel(hm) ==
  [hm EXCEPT !.x_key = [i \in 1..BLAKE2S_BLOCKBYTES |-> Xor8(@[i], \H5c)]]

\* for (i = 0; i < BLAKE2S_BLOCKBYTES; ++i) x_key[i] ^= 0x5c ^ 0x36;
HmacOpad(hm) ==
  [hm EXCEPT !.x_key = [i \in 1..BLAKE2S_BLOCKBYTES |->
                          Xor8(@[i], Xor8(\H5c, \H36))]]

\* what a pass run with the caller's outlen leaves
HmacPassDoneOutlen(hm, data, r) ==
  [hm EXCEPT !.state = r.state,
             !.i_hash = memcpy(@, 0, r.out, hm.outlen),
             !.calls = @ \o
               << Call("init", hm.outlen, <<>>),
                  Call("update", BLAKE2S_BLOCKBYTES, hm.x_key),
                  Call("update", Len(data), data),
                  Call("final", hm.outlen, r.out) >>]

\* the outer pass initialised and finalised with the caller's outlen
HmacOuterOutlen(hm) ==
  HmacPassDoneOutlen(hm, SubSeq(hm.i_hash, 1, BLAKE2S_OUTBYTES),
    blake2s_final(
      blake2s_update(
        blake2s_update(blake2s_init(hm.state, hm.outlen), hm.x_key),
        SubSeq(hm.i_hash, 1, BLAKE2S_OUTBYTES)),
      hm.outlen))

\* init; update(x_key); update(i_hash, BLAKE2S_OUTBYTES); final(i_hash)
HmacOuter(hm) ==
  HmacPassDone(hm, SubSeq(hm.i_hash, 1, BLAKE2S_OUTBYTES),
    blake2s_final(
      blake2s_update(
        blake2s_update(blake2s_init(hm.state, BLAKE2S_OUTBYTES), hm.x_key),
        SubSeq(hm.i_hash, 1, BLAKE2S_OUTBYTES)),
      BLAKE2S_OUTBYTES))

\* memcpy(out, i_hash, outlen); memzero_explicit(x_key); memzero_explicit(i_hash)
HmacReturn(hm) ==
  [hm EXCEPT !.out = SubSeq(hm.i_hash, 1, hm.outlen),
             !.x_key = memzero_explicit(@, BLAKE2S_BLOCKBYTES),
             !.i_hash = memzero_explicit(@, BLAKE2S_OUTBYTES)]

\* blake2s_hmac from entry to return
blake2s_hmac(key, in, outlen, junk_state, junk_hash) ==
  HmacReturn(HmacOuter(HmacOpad(HmacInner(HmacIpad(HmacKey(
    HmacEnter(key, in, outlen, junk_state, junk_hash)))))))

(***************************************************************************)
(* The callers.  One caller drives a hash state through blake2s_init or    *)
(* blake2s_init_key, any number of blake2s_update calls and blake2s_final; *)
(* another calls blake2s_hmac, which is followed statement by statement.   *)
(***************************************************************************)
VARIABLES
  pc,     \* where the caller is
  state,  \* the caller's struct blake2s_state
  log,    \* the compressions performed on state since its initialisation
  calls,  \* the blake2s_* calls the caller has made on state, in order
  out,    \* the bytes blake2s_final wrote to the caller's out buffer
  block,  \* blake2s_init_key's local block as it was on return
  hm,     \* blake2s_hmac's arguments and locals (see HmacEnter)
  conc    \* the hash states of concurrent threads (see ConcInit)

vars == <<pc, state, log, calls, out, block, hm, conc>>

\* the most blake2s_update calls one caller makes
MaxUpdates == 2

\* the input lengths a caller passes to one blake2s_update
ChunkLens == {0, 1, 64, 192}

\* the output lengths callers ask for
OutLens == {16, 32}

\* the key lengths given to blake2s_init_key
KeyLens == {1, 32}

\* the key and message lengths given to blake2s_hmac
HmacKeyLens == {1, 64, 65, 100}
HmacMsgLens == {0, 1, 64, 65}

\* the n message bytes a caller holds for stream offsets pos .. pos + n - 1
Data(pos, n) == [i \in 1..n |-> ((pos + i - 1) * 37 + 11) % 256]

\* the key of n bytes
KeyBytes(n) == [i \in 1..n |-> (i * 53 + 7) % 256]

\* memory never written: a struct and a digest buffer full of leftovers
JunkState ==
  [h |-> <<AllOnes, AllOnes, AllOnes, AllOnes,
           AllOnes, AllOnes, AllOnes, AllOnes>>,
   t |-> <<AllOnes, U32(7)>>, f |-> <<AllOnes, AllOnes>>,
   buf |-> [i \in 1..BLAKE2S_BLOCKBYTES |-> 170], buflen |-> 17,
   last_node |-> 1]
JunkHash == [i \in 1..BLAKE2S_OUTBYTES |-> 85]

NoHmac == Call("none", 0, <<>>)

\* no concurrent threads
NoThreads == [state |-> <<>>, thread |-> <<>>]

RECURSIVE Fed(_)
\* the bytes the blake2s_update calls of cs were given, concatenated
Fed(cs) ==
  IF cs = <<>> THEN <<>>
  ELSE IF Head(cs).op = "update" THEN Head(cs).data \o Fed(Tail(cs))
       ELSE Fed(Tail(cs))

\* the number of blake2s_update calls in cs
NumUpdates(cs) == Cardinality({i \in 1..Len(cs) : cs[i].op = "update"})

Init ==
  /\ pc = "start"
  /\ state \in {ZeroState, JunkState}
  /\ log = <<>>
  /\ calls = <<>>
  /\ out = <<>>
  /\ block = <<>>
  /\ hm = NoHmac
  /\ conc = NoThreads

\* the caller calls blake2s_init
Blake2sInit ==
  /\ pc = "start"
  /\ \E outlen \in OutLens :
       \E x \in {blake2s_init(state, outlen)} :
         /\ state' = x.state
         /\ log' = x.log
         /\ calls' = <<Call("init", outlen, <<>>)>>
  /\ pc' = "active"
  /\ UNCHANGED <<out, block, hm, conc>>

\* the caller calls blake2s_init_key
Blake2sInitKey ==
  /\ pc = "start"
  /\ \E outlen \in OutLens, keylen \in KeyLens :
       \E r \in {blake2s_init_key(state, outlen, KeyBytes(keylen), keylen)} :
         /\ state' = r.state
         /\ log' = r.log
         /\ block' = r.block
         /\ calls' = <<Call("init_key", outlen, KeyBytes(keylen))>>
  /\ pc' = "active"
  /\ UNCHANGED <<out, hm, conc>>

\* the caller calls blake2s_update with the next inlen bytes of its message
Blake2sUpdate ==
  /\ pc = "active"
  /\ NumUpdates(calls) < MaxUpdates
  /\ \E inlen \in ChunkLens :
       \E x \in {blake2s_update([state |-> state, log |-> log],
                                 Data(Len(Fed(calls)), inlen))} :
         /\ state' = x.state
         /\ log' = x.log
         /\ calls' = Append(calls, Call("update", inlen,
                                        Data(Len(Fed(calls)), inlen)))
  /\ UNCHANGED <<pc, out, block, hm, conc>>

\* the caller calls blake2s_final
Blake2sFinal ==
  /\ pc = "active"
  /\ \E outlen \in OutLens :
       \E r \in {blake2s_final([state |-> state, log |-> log], outlen)} :
         /\ state' = r.state
         /\ log' = r.log
         /\ out' = r.out
         /\ calls' = Append(calls, Call("final", outlen, r.out))
  /\ pc' = "done"
  /\ UNCHANGED <<block, hm, conc>>

\* blake2s_hmac is entered: lines 251-254
HmacCall ==
  /\ pc = "start"
  /\ \E keylen \in HmacKeyLens, inlen \in HmacMsgLens, outlen \in OutLens,
        junk \in {Zeros(BLAKE2S_OUTBYTES), JunkHash} :
       hm' = HmacEnter(KeyBytes(keylen), Data(0, inlen), outlen, state, junk)
  /\ pc' = "hmac_key"
  /\ UNCHANGED <<state, log, calls, out, block, conc>>

\* lines 256-261
HmacKeyStep ==
  /\ pc = "hmac_key"
  /\ hm' = HmacKey(hm)
  /\ pc' = "hmac_ipad"
  /\ UNCHANGED <<state, log, calls, out, block, conc>>

\* lines 263-264
HmacIpadStep ==
  /\ pc = "hmac_ipad"
  /\ hm' = HmacIpad(hm)
  /\ pc' = "hmac_inner"
  /\ UNCHANGED <<state, log, calls, out, block, conc>>

\* lines 266-269
HmacInnerStep ==
  /\ pc = "hmac_inner"
  /\ hm' = HmacInner(hm)
  /\ pc' = "hmac_opad"
  /\ UNCHANGED <<state, log, calls, out, block, conc>>

\* lines 271-272
HmacOpadStep ==
  /\ pc = "hmac_opad"
  /\ hm' = HmacOpad(hm)
  /\ pc' = "hmac_outer"
  /\ UNCHANGED <<state, log, calls, out, block, conc>>

\* lines 274-277
HmacOuterStep ==
  /\ pc = "hmac_outer"
  /\ hm' = HmacOuter(hm)
  /\ pc' = "hmac_ret"
  /\ UNCHANGED <<state, log, calls, out, block, conc>>

\* lines 279-282
HmacReturnStep ==
  /\ pc = "hmac_ret"
  /\ hm' = HmacReturn(hm)
  /\ pc' = "hmac_done"
  /\ UNCHANGED <<state, log, calls, out, block, conc>>

Next ==
  \/ Blake2sInit
  \/ Blake2sInitKey
  \/ Blake2sUpdate
  \/ Blake2sFinal
  \/ HmacCall
  \/ HmacKeyStep
  \/ HmacIpadStep
  \/ HmacInnerStep
  \/ HmacOpadStep
  \/ HmacOuterStep
  \/ HmacReturnStep

Spec == Init /\ [][Next]_vars

(***************************************************************************)
(* The properties.                                                         *)
(***************************************************************************)

\* the call that initialised the caller's state, and the latest call on it
InitCall == calls[1]
LastCall == calls[Len(calls)]

\* a state initialised as the call c initialised it
SameInit(c) ==
  IF c.op = "init_key"
  THEN blake2s_init_key(ZeroState, c.len, c.data, Len(c.data))
  ELSE blake2s_init(ZeroState, c.len)

\* the lifecycle that feeds the whole message in a single blake2s_update
OneShot(c, msg, outlen) ==
  blake2s_final(blake2s_update(SameInit(c), msg), outlen)

\* C1: however the caller splits a message into blake2s_update calls, the
\* blocks compressed, with their counters and flags and in their order, and
\* the digest blake2s_final writes are those of the lifecycle that feeds the
\* same message in one call.
ChunkIndependence ==
  pc = "done" =>
    \E r \in {OneShot(InitCall, Fed(calls), LastCall.len)} :
      /\ log = r.log
      /\ out = r.out

\* a message of more than one block was fed in two non-empty pieces
ChunkIndependenceSeen ==
  /\ pc = "done"
  /\ NumUpdates(calls) = 2
  /\ calls[2].len > 0
  /\ calls[3].len > 0
  /\ Len(Fed(calls)) > BLAKE2S_BLOCKBYTES
  /\ Len(log) > 1

\* C2: once a byte has been fed (the key block of blake2s_init_key counts),
\* buflen is between 1 and 64 after every call, also when the bytes fed so
\* far are a whole number of blocks; buflen is 0 only on a state that
\* blake2s_init made and that was fed nothing.
HoldBack ==
  pc = "active" =>
    /\ state.buflen \in 0..BLAKE2S_BLOCKBYTES
    /\ (Len(Fed(calls)) > 0 \/ InitCall.op = "init_key")
         => state.buflen \in 1..BLAKE2S_BLOCKBYTES
    /\ state.buflen = 0 => (Fed(calls) = <<>> /\ InitCall.op = "init")

\* two whole blocks were fed and the second one is held in the buffer
HoldBackSeen ==
  /\ pc = "active"
  /\ InitCall.op = "init"
  /\ Len(Fed(calls)) = 2 * BLAKE2S_BLOCKBYTES
  /\ Len(log) = 1
  /\ state.buflen = BLAKE2S_BLOCKBYTES

\* C3: when blake2s_final has returned, every field of the state is zero:
\* the chain value, the counter, the flags, the buffer, buflen and last_node.
FinalErases ==
  pc = "done" =>
    /\ \A i \in 1..8 : state.h[i] = <<0, 0>>
    /\ state.t = <<<<0, 0>>, <<0, 0>>>>
    /\ state.f = <<<<0, 0>>, <<0, 0>>>>
    /\ \A i \in 1..BLAKE2S_BLOCKBYTES : state.buf[i] = 0
    /\ Len(state.buf) = BLAKE2S_BLOCKBYTES
    /\ state.buflen = 0
    /\ state.last_node = 0

\* a keyed state that was fed more than a block has been finalised
FinalErasesSeen ==
  /\ pc = "done"
  /\ InitCall.op = "init_key"
  /\ Len(Fed(calls)) > BLAKE2S_BLOCKBYTES
  /\ Len(out) = BLAKE2S_OUTBYTES

\* the block blake2s_init_key builds from the key of the call c
PaddedKey(c) == c.data \o Zeros(BLAKE2S_BLOCKBYTES - Len(c.data))

\* C4: when blake2s_init_key returns, h[0] is IV[0] xor
\* (0x01010000 | keylen << 8 | outlen) and h[1..7] are IV[1..7], counter and
\* flags are zero, the buffer holds the key followed by zeros with buflen 64,
\* nothing has been compressed, and the local block is all zero; the key
\* block is then the first block compressed, counted as 64 bytes.
KeyedInit ==
  /\ (pc = "active" /\ Len(calls) = 1 /\ InitCall.op = "init_key") =>
       /\ state.h[1] = Xor32(blake2s_iv[1],
                        Word(\H0101, Len(InitCall.data) * 256 + InitCall.len))
       /\ \A i \in 2..8 : state.h[i] = blake2s_iv[i]
       /\ state.t = <<ZeroWord, ZeroWord>>
       /\ state.f = <<ZeroWord, ZeroWord>>
       /\ state.last_node = 0
       /\ state.buflen = BLAKE2S_BLOCKBYTES
       /\ state.buf = PaddedKey(InitCall)
       /\ log = <<>>
       /\ block = Zeros(BLAKE2S_BLOCKBYTES)
  /\ (pc \in {"active", "done"} /\ InitCall.op = "init_key" /\ log # <<>>) =>
       /\ log[1].block = PaddedKey(InitCall)
       /\ log[1].t = <<U32(BLAKE2S_BLOCKBYTES), ZeroWord>>

\* blake2s_init_key has just returned for a key of one byte
KeyedInitSeen ==
  /\ pc = "active"
  /\ Len(calls) = 1
  /\ InitCall.op = "init_key"
  /\ Len(InitCall.data) = 1
  /\ state.buflen = BLAKE2S_BLOCKBYTES

\* the bytes of k, each xored with the byte pad
Padded(k, pad) == [i \in 1..Len(k) |-> Xor8(k[i], pad)]

\* the digest of 32 bytes of the unkeyed hash of msg
Hash(msg) ==
  blake2s_final(
    blake2s_update(blake2s_init(ZeroState, BLAKE2S_OUTBYTES), msg),
    BLAKE2S_OUTBYTES).out

\* the 64-byte key HMAC works with: a key longer than a block is replaced by
\* its digest, and the key is zero-padded to the block length
EffectiveKey(key) ==
  IF Len(key) > BLAKE2S_BLOCKBYTES
  THEN Hash(key) \o Zeros(BLAKE2S_BLOCKBYTES - BLAKE2S_OUTBYTES)
  ELSE key \o Zeros(BLAKE2S_BLOCKBYTES - Len(key))

\* the calls blake2s_hmac makes to hash a key longer than a block
KeyHashCalls(key) ==
  IF Len(key) > BLAKE2S_BLOCKBYTES
  THEN << Call("init", BLAKE2S_OUTBYTES, <<>>),
          Call("update", Len(key), key),
          Call("final", BLAKE2S_OUTBYTES, Hash(key)) >>
  ELSE <<>>

\* the last eight calls of blake2s_hmac are the inner and the outer pass
\* over the 64-byte key k, the inner pass completed before the outer starts
TwoPasses(cs, k, in) ==
  /\ Len(cs) >= 8
  /\ \E c \in {SubSeq(cs, Len(cs) - 7, Len(cs))} :
       /\ c[1] = Call("init", BLAKE2S_OUTBYTES, <<>>)
       /\ c[2] = Call("update", BLAKE2S_BLOCKBYTES, Padded(k, \H36))
       /\ c[3] = Call("update", Len(in), in)
       /\ c[4].op = "final" /\ c[4].len = BLAKE2S_OUTBYTES
       /\ Len(c[4].data) = BLAKE2S_OUTBYTES
       /\ c[5] = Call("init", BLAKE2S_OUTBYTES, <<>>)
       /\ c[6] = Call("update", BLAKE2S_BLOCKBYTES, Padded(k, \H5c))
       /\ c[7] = Call("update", BLAKE2S_OUTBYTES, c[4].data)
       /\ c[8].op = "final" /\ c[8].len = BLAKE2S_OUTBYTES

\* C5: blake2s_hmac runs two complete lifecycles, the inner one first: init
\* with 32, update with the effective key xor 0x36, update with the message,
\* final giving the 32-byte intermediate digest; then init with 32, update
\* with the effective key xor 0x5c, update with the intermediate digest,
\* final giving the tag.  The outer pad is the effective key xor 0x5c.
HmacTwoPasses ==
  /\ pc = "hmac_done" =>
       /\ TwoPasses(hm.calls, EffectiveKey(hm.key), hm.in)
       /\ Len(hm.calls) = Len(KeyHashCalls(hm.key)) + 8
       /\ hm.out = SubSeq(hm.calls[Len(hm.calls)].data, 1, hm.outlen)
  /\ pc \in {"hmac_outer", "hmac_ret"} =>
       hm.x_key = Padded(EffectiveKey(hm.key), \H5c)
  /\ pc = "hmac_outer" =>
       /\ Len(hm.calls) = Len(KeyHashCalls(hm.key)) + 4
       /\ hm.calls[Len(hm.calls)].op = "final"

\* blake2s_hmac has returned for a key longer than a block and a message
\* longer than a block
HmacTwoPassesSeen ==
  /\ pc = "hmac_done"
  /\ Len(hm.key) > BLAKE2S_BLOCKBYTES
  /\ Len(hm.in) > BLAKE2S_BLOCKBYTES
  /\ Len(hm.calls) = 11

\* C6: blake2s_hmac hashes the key, with one more lifecycle of digest length
\* 32, exactly when the key is longer than 64 bytes, and then works with the
\* digest followed by 32 zero bytes; a key of 64 bytes or less, 64 included,
\* is used as it is, zero-padded to 64 bytes.
HmacKeyRule ==
  pc = "hmac_ipad" =>
    /\ hm.x_key = EffectiveKey(hm.key)
    /\ hm.calls = KeyHashCalls(hm.key)
    /\ Len(hm.key) <= BLAKE2S_BLOCKBYTES =>
         /\ hm.calls = <<>>
         /\ SubSeq(hm.x_key, 1, Len(hm.key)) = hm.key
    /\ Len(hm.key) > BLAKE2S_BLOCKBYTES =>
         /\ Len(hm.calls) = 3
         /\ SubSeq(hm.x_key, BLAKE2S_OUTBYTES + 1, BLAKE2S_BLOCKBYTES)
              = Zeros(BLAKE2S_BLOCKBYTES - BLAKE2S_OUTBYTES)

\* the key step has run for a key of exactly one block, left unhashed
HmacKeyRuleSeen ==
  /\ pc = "hmac_ipad"
  /\ Len(hm.key) = BLAKE2S_BLOCKBYTES
  /\ hm.x_key = hm.key
  /\ hm.calls = <<>>

\* C7: the tag blake2s_hmac writes for output length k is the first k bytes
\* of the tag it writes for output length 32 with the same key and message,
\* and every init and final of its passes is called with length 32.
HmacTruncates ==
  pc = "hmac_done" =>
    /\ hm.out = SubSeq(blake2s_hmac(hm.key, hm.in, BLAKE2S_OUTBYTES,
                                    ZeroState, Zeros(BLAKE2S_OUTBYTES)).out,
                       1, hm.outlen)
    /\ \A i \in 1..Len(hm.calls) :
         hm.calls[i].op \in {"init", "final"} =>
           hm.calls[i].len = BLAKE2S_OUTBYTES

\* blake2s_hmac has returned a tag shorter than 32 bytes
HmacTruncatesSeen ==
  /\ pc = "hmac_done"
  /\ hm.outlen < BLAKE2S_OUTBYTES
  /\ Len(hm.out) = hm.outlen

\* C8: when blake2s_hmac returns, its key block x_key, its intermediate
\* digest i_hash and its hash state are all zero.
HmacWipes ==
  pc = "hmac_done" =>
    /\ Len(hm.x_key) = BLAKE2S_BLOCKBYTES
    /\ \A i \in 1..BLAKE2S_BLOCKBYTES : hm.x_key[i] = 0
    /\ Len(hm.i_hash) = BLAKE2S_OUTBYTES
    /\ \A i \in 1..BLAKE2S_OUTBYTES : hm.i_hash[i] = 0
    /\ \A i \in 1..8 : hm.state.h[i] = <<0, 0>>
    /\ hm.state.t = <<<<0, 0>>, <<0, 0>>>>
    /\ hm.state.f = <<<<0, 0>>, <<0, 0>>>>
    /\ \A i \in 1..BLAKE2S_BLOCKBYTES : hm.state.buf[i] = 0
    /\ hm.state.buflen = 0
    /\ hm.state.last_node = 0

\* blake2s_hmac has returned a tag after hashing a long key
HmacWipesSeen ==
  /\ pc = "hmac_done"
  /\ Len(hm.key) > BLAKE2S_BLOCKBYTES
  /\ Len(hm.out) = hm.outlen
  /\ hm.out # Zeros(hm.outlen)

\* C9: a blake2s_update of zero bytes changes no field of the state (chain
\* value, counter, flags, buffer, buflen, last_node) and compresses nothing,
\* whatever the state between init and final, a full buffer included.
EmptyUpdateNoOp ==
  [][(/\ pc = "active"
      /\ pc' = "active"
      /\ calls' = Append(calls, Call("update", 0, <<>>)))
       => (/\ state' = state
           /\ log' = log
           /\ out' = out)]_vars

\* a blake2s_update of zero bytes has returned on a state whose buffer holds
\* a whole block
EmptyUpdateNoOpSeen ==
  /\ pc = "active"
  /\ Len(calls) >= 3
  /\ LastCall = Call("update", 0, <<>>)
  /\ state.buflen = BLAKE2S_BLOCKBYTES
  /\ Len(Fed(calls)) > 0

\* C10 as stated: the digest of a lifecycle run with output length k in both
\* blake2s_init and blake2s_final is the first k bytes of the digest of the
\* same message run with output length 32.
DigestPrefixOfLongest ==
  (pc = "done" /\ InitCall.op = "init" /\ InitCall.len = LastCall.len) =>
    out = SubSeq(OneShot(Call("init", BLAKE2S_OUTBYTES, <<>>), Fed(calls),
                         BLAKE2S_OUTBYTES).out,
                 1, LastCall.len)

\* C10: blake2s_init hashes its output length into h[0], which is IV[0] xor
\* (0x01010000 | outlen); for the same message and the same initialisation,
\* the digest blake2s_final writes for output length k is the first k bytes
\* of the digest it writes for output length 32.
DigestPrefixSameInit ==
  /\ (pc = "active" /\ Len(calls) = 1 /\ InitCall.op = "init") =>
       /\ state.h[1] = Xor32(blake2s_iv[1], Word(\H0101, InitCall.len))
       /\ \A i \in 2..8 : state.h[i] = blake2s_iv[i]
  /\ pc = "done" =>
       /\ Len(out) = LastCall.len
       /\ out = SubSeq(OneShot(InitCall, Fed(calls), BLAKE2S_OUTBYTES).out,
                       1, LastCall.len)

\* a state initialised for 32 bytes of output was fed a message and
\* finalised for 16
DigestPrefixSameInitSeen ==
  /\ pc = "done"
  /\ InitCall.op = "init"
  /\ InitCall.len = BLAKE2S_OUTBYTES
  /\ LastCall.len < BLAKE2S_OUTBYTES
  /\ Len(Fed(calls)) > 0
  /\ Len(out) = LastCall.len

\* the number of bytes hashed so far: the key block and the bytes fed
StreamLen == (IF InitCall.op = "init_key" THEN BLAKE2S_BLOCKBYTES ELSE 0)
             + Len(Fed(calls))

\* the number of blocks the calls made so far have asked to be compressed:
\* every block of the stream but the last while the state is in use, and
\* the last one too, or an empty one, once it is finalised
BlocksDue ==
  IF StreamLen = 0 THEN (IF pc = "done" THEN 1 ELSE 0)
  ELSE (StreamLen - 1) \div BLAKE2S_BLOCKBYTES + (IF pc = "done" THEN 1 ELSE 0)

\* the compression request blake2s_final makes on the current state
FinalRequest == [state |-> FinalPad(blake2s_set_lastblock(state)), log |-> log]

\* the hook and the generic routine agree on the request x for one block:
\* the hook of the generic build declines and the generic routine processes
\* the block; the backend of the x86_64 build, whether it declines or
\* accepts, leaves the same state
HookAgrees(x) ==
  /\ ~blake2s_arch(x.state, x.state.buf, 1, x.state.buflen)
  /\ \E r \in {blake2s_compress(x, x.state.buf, 1, x.state.buflen)} :
       /\ Len(r.log) = Len(x.log) + 1
       /\ \A simd \in BOOLEAN :
            /\ blake2s_arch_simd(x, x.state.buf, 1, x.state.buflen, simd).ret
                 = simd
            /\ ~simd => blake2s_arch_simd(x, x.state.buf, 1, x.state.buflen,
                                          simd).x = x
            /\ blake2s_compress_simd(x, x.state.buf, 1, x.state.buflen, simd)
                 = r

BugOnOutlen(outlen) == outlen = 0 \/ outlen > BLAKE2S_OUTBYTES

\* BUG_ON(!outlen || outlen > BLAKE2S_OUTBYTES || !key || !keylen ||
\*        keylen > BLAKE2S_KEYBYTES) of blake2s_init_key (key is never NULL)
BugOnKey(outlen, keylen) ==
  BugOnOutlen(outlen) \/ keylen = 0 \/ keylen > BLAKE2S_KEYBYTES

\* the lengths the callers of the debug build pass
DebugOutLens == {0, 16, 32, 33}
DebugKeyLens == {0, 32, 33}
DebugHmacKeyLens == {1, 65}
DebugHmacMsgLens == {0, 65}

\* what the byte behind i_hash on the stack may hold
StrayBytes == 0..255

\* blake2s_init in the debug build
DebugInit ==
  /\ pc = "start"
  /\ \E outlen \in DebugOutLens :
       IF BugOnOutlen(outlen)
       THEN /\ pc' = "trap"
            /\ calls' = <<Call("init", outlen, <<>>)>>
            /\ UNCHANGED <<state, log>>
       ELSE \E x \in {blake2s_init(state, outlen)} :
              /\ pc' = "active"
              /\ state' = x.state
              /\ log' = x.log
              /\ calls' = <<Call("init", outlen, <<>>)>>
  /\ UNCHANGED <<out, block, hm, conc>>

\* blake2s_init_key in the debug build
DebugInitKey ==
  /\ pc = "start"
  /\ \E outlen \in DebugOutLens, keylen \in DebugKeyLens :
       IF BugOnKey(outlen, keylen)
       THEN /\ pc' = "trap"
            /\ calls' = <<Call("init_key", outlen, KeyBytes(keylen))>>
            /\ UNCHANGED <<state, log, block>>
       ELSE \E r \in {blake2s_init_key(state, outlen, KeyBytes(keylen),
                                       keylen)} :
              /\ pc' = "active"
              /\ state' = r.state
              /\ log' = r.log
              /\ block' = r.block
              /\ calls' = <<Call("init_key", outlen, KeyBytes(keylen))>>
  /\ UNCHANGED <<out, hm, conc>>

\* blake2s_final in the debug build
DebugFinal ==
  /\ pc = "active"
  /\ \E outlen \in DebugOutLens :
       IF BugOnOutlen(outlen)
       THEN /\ pc' = "trap"
            /\ calls' = Append(calls, Call("final", outlen, <<>>))
            /\ UNCHANGED <<state, log, out>>
       ELSE \E r \in {blake2s_final([state |-> state, log |-> log], outlen)} :
              /\ pc' = "done"
              /\ state' = r.state
              /\ log' = r.log
              /\ out' = r.out
              /\ calls' = Append(calls, Call("final", outlen, r.out))
  /\ UNCHANGED <<block, hm, conc>>

\* blake2s_hmac is entered in the debug build: it has no BUG_ON
DebugHmacCall ==
  /\ pc = "start"
  /\ \E keylen \in DebugHmacKeyLens, inlen \in DebugHmacMsgLens,
        outlen \in DebugOutLens :
       hm' = HmacEnter(KeyBytes(keylen), Data(0, inlen), outlen, state,
                       JunkHash)
  /\ pc' = "hmac_key"
  /\ UNCHANGED <<state, log, calls, out, block, conc>>

\* lines 279-282 for any outlen: memcpy(out, i_hash, outlen) reads the
\* outlen - BLAKE2S_OUTBYTES bytes behind i_hash when outlen is larger
DebugHmacReturnStep ==
  /\ pc = "hmac_ret"
  /\ IF hm.outlen <= BLAKE2S_OUTBYTES
     THEN hm' = HmacReturn(hm)
     ELSE \E stray \in [1..(hm.outlen - BLAKE2S_OUTBYTES) -> StrayBytes] :
            hm' = [hm EXCEPT
                     !.out = hm.i_hash \o stray,
                     !.x_key = memzero_explicit(@, BLAKE2S_BLOCKBYTES),
                     !.i_hash = memzero_explicit(@, BLAKE2S_OUTBYTES)]
  /\ pc' = "hmac_done"
  /\ UNCHANGED <<state, log, calls, out, block, conc>>

DebugNext ==
  \/ DebugInit
  \/ DebugInitKey
  \/ Blake2sUpdate
  \/ DebugFinal
  \/ DebugHmacCall
  \/ HmacKeyStep
  \/ HmacIpadStep
  \/ HmacInnerStep
  \/ HmacOpadStep
  \/ HmacOuterStep
  \/ DebugHmacReturnStep

DebugSpec == Init /\ [][DebugNext]_vars

\* the call just made passed a length outside the contract
BadHashCall(c) ==
  \/ c.op \in {"init", "final"} /\ BugOnOutlen(c.len)
  \/ c.op = "init_key" /\ BugOnKey(c.len, Len(c.data))

\* C12: in the debug build every public operation given a length outside
\* the contract (output length 0 or above 32; for blake2s_init_key also key
\* length 0 or above 32) traps before it changes the state or writes a byte
\* of output: blake2s_init, blake2s_init_key, blake2s_final and blake2s_hmac.
DebugLengthsTrap ==
  [][/\ (calls' # calls /\ BadHashCall(calls'[Len(calls')])) =>
          (pc' = "trap" /\ state' = state /\ log' = log /\ out' = out)
     /\ (hm' # hm /\ BugOnOutlen(hm'.outlen)) =>
          (pc' = "trap" /\ hm'.out = <<>> /\ hm'.state = state)]_vars

\* blake2s_hmac of the debug build has returned after writing 33 bytes
DebugLengthsTrapSeen ==
  /\ pc = "hmac_done"
  /\ hm.outlen > BLAKE2S_OUTBYTES
  /\ Len(hm.out) = hm.outlen

(***************************************************************************)
(* Two threads, each with a hash state of its own, whose calls interleave. *)
(* conc.state[p] is the struct blake2s_state the pointer p refers to;      *)
(* conc.thread[p] is what thread p knows: where it is, the calls it made,  *)
(* the compressions they performed and the digest it was given.  Each      *)
(* thread initialises its state, feeds it at most once and finalises it.   *)
(***************************************************************************)
Instances == {1, 2}

\* the lengths the threads pass
ConcChunkLens == {1, 64, 192}
ConcOutLens == {16}

\* the bytes thread p feeds
ConcData(p, n) == Data(100 * p, n)

\* the memory thread p starts with
ThreadStart(p) == IF p = 1 THEN JunkState ELSE ZeroState

\* all of the state behind one static struct, whatever the pointer
StoreShared(states, p, s) == [q \in DOMAIN states |-> s]

\* the callee writes *state: the struct the pointer p refers to, no other
Store(states, p, s) == [states EXCEPT ![p] = s]

\* thread p after a call that returned x
ThreadAfter(p, x, to, call) ==
  [conc.thread EXCEPT ![p] =
     [pc |-> to, calls |-> Append(@.calls, call), log |-> x.log,
      out |-> x.out]]

\* x with the digest buffer of thread p, which the call did not write
KeepOut(p, x) ==
  [state |-> x.state, log |-> x.log, out |-> conc.thread[p].out]

ConcInit ==
  /\ pc = "threads"
  /\ state = ZeroState
  /\ log = <<>>
  /\ calls = <<>>
  /\ out = <<>>
  /\ block = <<>>
  /\ hm = NoHmac
  /\ conc = [state |-> [p \in Instances |-> ThreadStart(p)],
             thread |-> [p \in Instances |->
                          [pc |-> "start", calls |-> <<>>, log |-> <<>>,
                           out |-> <<>>]]]

\* thread p calls blake2s_init
ConcBlake2sInit(p) ==
  /\ conc.thread[p].pc = "start"
  /\ \E outlen \in ConcOutLens :
       \E x \in {KeepOut(p, blake2s_init(conc.state[p], outlen))} :
         conc' = [state |-> Store(conc.state, p, x.state),
                  thread |-> ThreadAfter(p, x, "active",
                                         Call("init", outlen, <<>>))]
  /\ UNCHANGED <<pc, state, log, calls, out, block, hm>>

\* thread p calls blake2s_init_key
ConcBlake2sInitKey(p) ==
  /\ conc.thread[p].pc = "start"
  /\ \E x \in {KeepOut(p, blake2s_init_key(conc.state[p], BLAKE2S_OUTBYTES,
                                          KeyBytes(BLAKE2S_KEYBYTES),
                                          BLAKE2S_KEYBYTES))} :
       conc' = [state |-> Store(conc.state, p, x.state),
                thread |-> ThreadAfter(p, x, "active",
                             Call("init_key", BLAKE2S_OUTBYTES,
                                  KeyBytes(BLAKE2S_KEYBYTES)))]
  /\ UNCHANGED <<pc, state, log, calls, out, block, hm>>

\* thread p calls blake2s_update
ConcBlake2sUpdate(p) ==
  /\ conc.thread[p].pc = "active"
  /\ \E inlen \in ConcChunkLens :
       \E x \in {KeepOut(p, blake2s_update(
                   [state |-> conc.state[p], log |-> conc.thread[p].log],
                   ConcData(p, inlen)))} :
         conc' = [state |-> Store(conc.state, p, x.state),
                  thread |-> ThreadAfter(p, x, "fed",
                               Call("update", inlen, ConcData(p, inlen)))]
  /\ UNCHANGED <<pc, state, log, calls, out, block, hm>>

\* thread p calls blake2s_final
ConcBlake2sFinal(p) ==
  /\ conc.thread[p].pc \in {"active", "fed"}
  /\ \E x \in {blake2s_final(
                 [state |-> conc.state[p], log |-> conc.thread[p].log],
                 conc.thread[p].calls[1].len)} :
       conc' = [state |-> Store(conc.state, p, x.state),
                thread |-> ThreadAfter(p, x, "done",
                             Call("final", conc.thread[p].calls[1].len,
                                  x.out))]
  /\ UNCHANGED <<pc, state, log, calls, out, block, hm>>

ConcNext ==
  \E p \in Instances :
    \/ ConcBlake2sInit(p)
    \/ ConcBlake2sInitKey(p)
    \/ ConcBlake2sUpdate(p)
    \/ ConcBlake2sFinal(p)

ConcSpec == ConcInit /\ [][ConcNext]_vars

\* what the call c leaves of r = [state, log, out]
ReplayCall(r, c) ==
  CASE c.op = "init" ->
         [state |-> blake2s_init(r.state, c.len).state, log |-> <<>>,
          out |-> r.out]
    [] c.op = "init_key" ->
         [state |-> blake2s_init_key(r.state, c.len, c.data,
                                     Len(c.data)).state,
          log |-> <<>>, out |-> r.out]
    [] c.op = "update" ->
         [state |-> blake2s_update([state |-> r.state, log |-> r.log],
                                   c.data).state,
          log |-> blake2s_update([state |-> r.state, log |-> r.log],
                                 c.data).log,
          out |-> r.out]
    [] c.op = "final" ->
         blake2s_final([state |-> r.state, log |-> r.log], c.len)

RECURSIVE Replay(_, _)
\* what the calls cs, made one after the other with nothing in between,
\* leave of r
Replay(r, cs) ==
  IF cs = <<>> THEN r ELSE Replay(ReplayCall(r, Head(cs)), Tail(cs))

\* the calls of thread p run alone on the memory it started with
Alone(p) ==
  Replay([state |-> ThreadStart(p), log |-> <<>>, out |-> <<>>],
         conc.thread[p].calls)

\* C13: when the calls of two threads on two hash states interleave in any
\* order, after every step each state, the compressions its calls performed
\* and the digest it was given are what the thread's own calls leave when
\* they run alone: no call reads or writes the other state.
InstanceIndependence ==
  pc = "threads" =>
    \A p \in Instances :
      \E r \in {Alone(p)} :
        /\ conc.state[p] = r.state
        /\ conc.thread[p].log = r.log
        /\ conc.thread[p].out = r.out

\* thread 2 was finalised while thread 1 was between its update and its
\* final, and thread 1 then finished
InstanceIndependenceSeen ==
  /\ pc = "threads"
  /\ conc.thread[1].pc = "done"
  /\ conc.thread[2].pc = "done"
  /\ Len(conc.thread[1].log) > 1
  /\ Len(conc.thread[2].log) > 1
  /\ conc.thread[1].out # conc.thread[2].out

\* the value of a u32 below 2^31
Value(w) == w[1] + 65536 * w[2]

\* C14: blake2s_final performs exactly one compression; its block is the
\* buflen buffered bytes followed by 64 - buflen zero bytes, whatever earlier
\* calls left in the buffer behind buflen, and its inc is buflen, which is
\* at most 64 and is 0 exactly when nothing is buffered.
FinalBlock ==
  [][(pc = "active" /\ pc' = "done") =>
       /\ Len(log') = Len(log) + 1
       /\ SubSeq(log', 1, Len(log)) = log
       /\ log'[Len(log')].block =
            SubSeq(state.buf, 1, state.buflen)
              \o Zeros(BLAKE2S_BLOCKBYTES - state.buflen)
       /\ Value(log'[Len(log')].t[1]) = Value(state.t[1]) + state.buflen
       /\ log'[Len(log')].t[2] = state.t[2]
       /\ state.buflen <= BLAKE2S_BLOCKBYTES
       /\ state.buflen = 0 <=> StreamLen = 0]_vars

\* a state finalised with one byte buffered in front of 63 bytes that an
\* earlier block left in the buffer
FinalBlockSeen ==
  /\ pc = "done"
  /\ NumUpdates(calls) = 2
  /\ calls[2].len = BLAKE2S_BLOCKBYTES
  /\ calls[3].len = 1
  /\ log[Len(log)].block = calls[3].data \o Zeros(BLAKE2S_BLOCKBYTES - 1)
  /\ SubSeq(calls[2].data, 2, BLAKE2S_BLOCKBYTES)
       # Zeros(BLAKE2S_BLOCKBYTES - 1)

\* no compression of lg ran with a flag word set
NoFlags(lg) == \A i \in 1..Len(lg) : lg[i].f = <<ZeroWord, ZeroWord>>

\* the compressions lg of a finished lifecycle: the last one, and no other,
\* ran with f[0] all-ones, and none with f[1] set
FlagsOfLifecycle(lg) ==
  /\ Len(lg) >= 1
  /\ lg[Len(lg)].f = <<AllOnes, ZeroWord>>
  /\ NoFlags(SubSeq(lg, 1, Len(lg) - 1))

\* the compressions of the lifecycle that the calls cs of blake2s_hmac make
LifecycleLog(cs) ==
  Replay([state |-> ZeroState, log |-> <<>>, out |-> <<>>], cs).log

\* C15: in every lifecycle exactly one compression runs with f[0] all-ones:
\* the last one, issued by blake2s_final; the compressions blake2s_update
\* issues run with both flag words zero.  f[1] is set with f[0] only when
\* last_node is set, and last_node is 0 in every state the public functions
\* produce, so f[1] is 0 in every compression, those of blake2s_hmac
\* included.
FlagOrdering ==
  /\ pc = "active" =>
       /\ NoFlags(log)
       /\ state.f = <<ZeroWord, ZeroWord>>
       /\ state.last_node = 0
       /\ blake2s_set_lastblock(state).f = <<AllOnes, ZeroWord>>
       /\ blake2s_set_lastblock([state EXCEPT !.last_node = 1]).f
            = <<AllOnes, AllOnes>>
  /\ pc = "done" => FlagsOfLifecycle(log)
  /\ pc = "hmac_done" =>
       \A k \in 0..((Len(hm.calls) - 8) \div 3) :
         \/ /\ k = 1
            /\ FlagsOfLifecycle(LifecycleLog(SubSeq(hm.calls, 1, 3)))
         \/ /\ k = 0
            /\ FlagsOfLifecycle(LifecycleLog(
                 SubSeq(hm.calls, Len(hm.calls) - 7, Len(hm.calls) - 4)))
            /\ FlagsOfLifecycle(LifecycleLog(
                 SubSeq(hm.calls, Len(hm.calls) - 3, Len(hm.calls))))

\* a lifecycle of four compressions has ended
FlagOrderingSeen ==
  /\ pc = "done"
  /\ Len(log) = 4
  /\ log[4].f = <<AllOnes, ZeroWord>>
  /\ log[3].f = <<ZeroWord, ZeroWord>>

(***************************************************************************)
(* The counter far into a stream.  Besides the callers of Spec, a state    *)
(* whose counter is anywhere in its 64 bits, the wrapping points of both   *)
(* words included, is advanced by blake2s_increment_counter.               *)
(***************************************************************************)
\* the most increments applied to one counter
MaxIncrements == 2

\* the low and high counter words to start from, and the increments
CounterLows ==
  {ZeroWord, <<65535, 0>>, <<65472, 65535>>, <<65473, 65535>>, AllOnes}
CounterHighs == {ZeroWord, <<65535, 0>>, AllOnes}
CounterIncs == {0, 1, 63, 64}

CounterStart ==
  /\ pc = "counter"
  /\ state \in {[ZeroState EXCEPT !.t = <<lo, hi>>] :
                  lo \in CounterLows, hi \in CounterHighs}
  /\ log = <<>>
  /\ calls = <<>>
  /\ out = <<>>
  /\ block = <<>>
  /\ hm = NoHmac
  /\ conc = NoThreads

\* blake2s_increment_counter(state, inc); the call is noted with the
\* counter it found
IncrementCounter ==
  /\ pc = "counter"
  /\ Len(calls) < MaxIncrements
  /\ \E inc \in CounterIncs :
       /\ state' = blake2s_increment_counter(state, inc)
       /\ calls' = Append(calls, Call("increment", inc, state.t))
  /\ UNCHANGED <<pc, log, out, block, hm, conc>>

CounterInit == Init \/ CounterStart

CounterNext == Next \/ IncrementCounter

CounterSpec == CounterInit /\ [][CounterNext]_vars

\* w + n overflows 32 bits, for n below 2^16
Wraps(w, n) == w[2] + (w[1] + n) \div 65536 >= 65536

\* w + n modulo 2^32, for n below 2^16
Plus(w, n) == <<(w[1] + n) % 65536, (w[2] + (w[1] + n) \div 65536) % 65536>>

\* C16: between init and final the 64-bit counter plus buflen is the number
\* of bytes fed, the key block of blake2s_init_key included, so the counter
\* of the final compression is the length of the whole input; an increment
\* adds inc to the low word modulo 2^32 and adds 1 to the high word exactly
\* when the low word wrapped.
CounterBookkeeping ==
  /\ pc = "active" =>
       /\ state.t[2] = ZeroWord
       /\ Value(state.t[1]) + state.buflen = StreamLen
  /\ pc = "done" =>
       /\ log[Len(log)].t[2] = ZeroWord
       /\ Value(log[Len(log)].t[1]) = StreamLen
  /\ (pc = "counter" /\ calls # <<>>) =>
       /\ state.t[1] = Plus(LastCall.data[1], LastCall.len)
       /\ state.t[2] = IF Wraps(LastCall.data[1], LastCall.len)
                       THEN Plus(LastCall.data[2], 1)
                       ELSE LastCall.data[2]

\* a counter of 2^64 - 64 was advanced by 64 and wrapped to 0
CounterBookkeepingSeen ==
  /\ pc = "counter"
  /\ calls # <<>>
  /\ LastCall = Call("increment", 64, <<<<65472, 65535>>, AllOnes>>)
  /\ state.t = <<ZeroWord, ZeroWord>>

\* this step is a call of blake2s_update with at least one byte
UpdateStep ==
  /\ pc = "active"
  /\ pc' = "active"
  /\ Len(calls') = Len(calls) + 1
  /\ calls'[Len(calls')].op = "update"
  /\ calls'[Len(calls')].len > 0

\* the bytes and the number of bytes this step passes to blake2s_update
StepIn == calls'[Len(calls')].data
StepLen == calls'[Len(calls')].len

\* the number of bytes the buffer holds once rest bytes were handled with
\* the buffer empty: all of them up to a block, else what the last block has
Residual(rest) ==
  IF rest = 0 THEN 0 ELSE ((rest - 1) % BLAKE2S_BLOCKBYTES) + 1

\* this step topped the buffer off: the first new compression is that of
\* the buffered bytes followed by the first 64 - buflen bytes of the input,
\* with inc = 64, and the rest was handled with the buffer fill at 0
ToppedOff ==
  /\ Len(log') > Len(log)
  /\ SubSeq(log', 1, Len(log)) = log
  /\ log'[Len(log) + 1].block =
       SubSeq(state.buf, 1, state.buflen)
         \o SubSeq(StepIn, 1, BLAKE2S_BLOCKBYTES - state.buflen)
  /\ Value(log'[Len(log) + 1].t[1]) = Value(state.t[1]) + BLAKE2S_BLOCKBYTES
  /\ state'.buflen =
       Residual(StepLen - (BLAKE2S_BLOCKBYTES - state.buflen))

\* C17 as stated: a blake2s_update of n > 0 bytes with buflen + n >= 64
\* first tops the buffer off to 64 bytes, compresses it with inc = 64 and
\* resets buflen to 0 before it handles the rest.
TopOffWhenFilled ==
  [][(UpdateStep /\ state.buflen + StepLen >= BLAKE2S_BLOCKBYTES)
       => ToppedOff]_vars

\* C17: a blake2s_update of n > 0 bytes with buflen + n > 64 first tops the
\* buffer off to 64 bytes, compresses it with inc = 64 and resets buflen to
\* 0 before it handles the rest; with buflen + n <= 64, the buffer filled
\* exactly included, it appends the bytes to the buffer and compresses
\* nothing.
TopOffWhenExceeded ==
  [][UpdateStep =>
       IF state.buflen + StepLen > BLAKE2S_BLOCKBYTES
       THEN ToppedOff
       ELSE /\ log' = log
            /\ state'.buflen = state.buflen + StepLen
            /\ state'.buf = SubSeq(state.buf, 1, state.buflen) \o StepIn
                 \o SubSeq(state.buf, state.buflen + StepLen + 1,
                           BLAKE2S_BLOCKBYTES)
            /\ state'.h = state.h
            /\ state'.t = state.t]_vars

\* a buffer holding one byte was topped off with 63 of the 64 bytes fed
TopOffWhenExceededSeen ==
  /\ pc = "active"
  /\ InitCall.op = "init"
  /\ NumUpdates(calls) = 2
  /\ calls[2].len = 1
  /\ calls[3].len = BLAKE2S_BLOCKBYTES
  /\ Len(log) = 1
  /\ log[1].block = calls[2].data \o SubSeq(calls[3].data, 1, 63)
  /\ state.buflen = 1

\* whether this step tops the buffer off, and how many compressions that is
StepTops == state.buflen + StepLen > BLAKE2S_BLOCKBYTES
StepTopBlocks == IF StepTops THEN 1 ELSE 0

\* where in the input the bytes left by the top-off start, and how many
\* they are
StepRestAt == IF StepTops THEN BLAKE2S_BLOCKBYTES - state.buflen ELSE 0
StepRest == StepLen - StepRestAt

\* the number of compressions this step performed straight from the input
StepDirectBlocks == Len(log') - Len(log) - StepTopBlocks

\* the j-th compression of this step's direct pass took 64 bytes of the
\* caller's input, in order, with inc = 64
DirectBlock(j) ==
  /\ log'[Len(log) + StepTopBlocks + j].block =
       SubSeq(StepIn, StepRestAt + BLAKE2S_BLOCKBYTES * (j - 1) + 1,
              StepRestAt + BLAKE2S_BLOCKBYTES * j)
  /\ Value(log'[Len(log) + StepTopBlocks + j].t[1]) =
       Value(state.t[1]) + BLAKE2S_BLOCKBYTES * (StepTopBlocks + j)
  /\ log'[Len(log) + StepTopBlocks + j].f = <<ZeroWord, ZeroWord>>

Reinit ==
  /\ pc \in {"active", "done"}
  /\ \E outlen \in OutLens :
       \E x \in {blake2s_init(state, outlen)} :
         /\ state' = x.state
         /\ log' = x.log
         /\ calls' = Append(calls, Call("init", outlen, <<>>))
  /\ pc' = "reinit"
  /\ UNCHANGED <<out, block, hm, conc>>

\* the caller calls blake2s_init_key on such a state: the call has run
\* blake2s_init_param (line 109)
ReinitParam ==
  /\ pc \in {"active", "done"}
  /\ \E outlen \in OutLens, keylen \in KeyLens :
       \E x \in {blake2s_init_param(state, Param(outlen, keylen))} :
         /\ state' = x.state
         /\ log' = x.log
         /\ calls' = Append(calls, Call("init_key", outlen, KeyBytes(keylen)))
  /\ pc' = "reinit_param"
  /\ UNCHANGED <<out, block, hm, conc>>

\* the rest of that blake2s_init_key call: lines 110-112
ReinitKeyBlock ==
  /\ pc = "reinit_param"
  /\ \E r \in {InitKeyBlock([state |-> state, log |-> log],
                            KeyBlock(LastCall.data, Len(LastCall.data)))} :
       /\ state' = r.state
       /\ log' = r.log
       /\ block' = r.block
  /\ pc' = "reinit_key"
  /\ UNCHANGED <<calls, out, hm, conc>>

ReinitNext == Next \/ Reinit \/ ReinitParam \/ ReinitKeyBlock

ReinitSpec == Init /\ [][ReinitNext]_vars

\* IV[0] ^ (0x01010000 | keylen << 8 | outlen), IV[1..7]; everything else 0
CleanState(outlen, keylen) ==
  [h |-> << Xor32(blake2s_iv[1], Word(257, 256 * keylen + outlen)),
            blake2s_iv[2], blake2s_iv[3], blake2s_iv[4],
            blake2s_iv[5], blake2s_iv[6], blake2s_iv[7], blake2s_iv[8] >>,
   t |-> <<ZeroWord, ZeroWord>>, f |-> <<ZeroWord, ZeroWord>>,
   buf |-> Zeros(BLAKE2S_BLOCKBYTES), buflen |-> 0, last_node |-> 0]

\* the clean state with the zero-padded key block waiting in the buffer
CleanKeyedState(outlen, key) ==
  [CleanState(outlen, Len(key)) EXCEPT
     !.buf = key \o Zeros(BLAKE2S_BLOCKBYTES - Len(key)),
     !.buflen = BLAKE2S_BLOCKBYTES]

\* C19: after blake2s_init, and after the parameter initialisation of
\* blake2s_init_key, h[0] = IV[0] ^ (0x01010000 | keylen << 8 | outlen)
\* (keylen 0 for blake2s_init), h[1..7] = IV[1..7], and t, f, buf, buflen
\* and last_node are zero, whether the state was never written, in use or
\* wiped before; blake2s_init_key then only adds the key block to the buffer.
ChainValueInit ==
  /\ (pc \in {"active", "reinit"} /\ LastCall.op = "init") =>
       /\ state = CleanState(LastCall.len, 0)
       /\ log = <<>>
  /\ pc = "reinit_param" =>
       /\ state = CleanState(LastCall.len, Len(LastCall.data))
       /\ log = <<>>
  /\ (pc \in {"active", "reinit_key"} /\ LastCall.op = "init_key") =>
       /\ state = CleanKeyedState(LastCall.len, LastCall.data)
       /\ log = <<>>

\* a state that had compressed blocks and was wiped by blake2s_final has
\* been initialised again by blake2s_init_key with a 32-byte key
ChainValueInitSeen ==
  /\ pc = "reinit_param"
  /\ Len(calls) = 5
  /\ calls[1].op = "init"
  /\ calls[3].len = 3 * BLAKE2S_BLOCKBYTES
  /\ calls[4].op = "final"
  /\ LastCall.len = 16
  /\ Len(LastCall.data) = 32
  /\ state.h[1] = Xor32(blake2s_iv[1], Word(257, 8208))

\* const size_t fill = BLAKE2S_BLOCKBYTES - state->buflen, as the next
\* blake2s_update would compute it
Fill(x) == BLAKE2S_BLOCKBYTES - x.buflen

\* C20: in every state reached from blake2s_init or blake2s_init_key by
\* blake2s_update calls, 0 <= buflen <= 64 and buflen is the number of bytes
\* fed and not yet compressed; no copy into buf and no padding by
\* blake2s_final wrote past its 64 bytes; fill = 64 - buflen is not negative.
\* The states blake2s_hmac works on are within the same bounds.
BufferBound ==
  /\ pc = "active" =>
       /\ state.buflen \in 0..BLAKE2S_BLOCKBYTES
       /\ state.buflen = StreamLen - BLAKE2S_BLOCKBYTES * Len(log)
       /\ Fill(state) \in 0..BLAKE2S_BLOCKBYTES
       /\ Len(state.buf) = BLAKE2S_BLOCKBYTES
       /\ Len(FinalPad(state).buf) = BLAKE2S_BLOCKBYTES
  /\ pc = "done" =>
       /\ Len(state.buf) = BLAKE2S_BLOCKBYTES
       /\ Len(log[Len(log)].block) = BLAKE2S_BLOCKBYTES
  /\ hm # NoHmac =>
       /\ Len(hm.state.buf) = BLAKE2S_BLOCKBYTES
       /\ hm.state.buflen \in 0..BLAKE2S_BLOCKBYTES
       /\ Len(hm.x_key) = BLAKE2S_BLOCKBYTES
       /\ Len(hm.i_hash) = BLAKE2S_OUTBYTES

\* the buffer was full when 64 more bytes came: fill was 0, the top-off
\* copied nothing, and the trailing copy filled the buffer again
BufferBoundSeen ==
  /\ pc = "active"
  /\ NumUpdates(calls) = 2
  /\ calls[2].len = BLAKE2S_BLOCKBYTES
  /\ calls[3].len = BLAKE2S_BLOCKBYTES
  /\ Len(log) = 1
  /\ state.buflen = BLAKE2S_BLOCKBYTES
  /\ Fill(state) = 0
  /\ state.buf = calls[3].data

====
